---------------------------- MODULE Spec2Model ----------------------------
(***************************************************************************)
(* AI trading simulation of finance_rag_bot: the lifecycle commands of     *)
(* api/v1/trading.py, the Celery task of workers/trading_tasks.py and the  *)
(* engine of services/trading/engine.py, over one simulation id.           *)
(*                                                                         *)
(* The durable store is PostgreSQL behind SQLAlchemy sessions: a session   *)
(* reads committed rows and its own flushed rows (READ COMMITTED), a       *)
(* flushed UPDATE of the simulation row holds the row lock until the       *)
(* session commits, and an UPDATE writes only the columns that changed.    *)
(*                                                                         *)
(* Numbers.  The code computes in decimal.Decimal.  Here share quantities  *)
(* are whole shares, prices are whole currency units, and money is counted *)
(* in units of 1/CommissionDenom of the currency unit, so that every       *)
(* product, sum and commission of _execute_trade is exact.  The two        *)
(* divisions of _execute_trade (the clamped buy quantity, the blended      *)
(* average cost) are carried to the model's unit and truncated.            *)
(***************************************************************************)
EXTENDS Integers, Sequences, FiniteSets, TLC

(* ----------------------------- bounds ---------------------------------- *)

\* worker executions of the task for the one simulation id
MaxTasks == 2
\* handlers of one lifecycle command between their check and their commit
MaxInFlight == 1
\* oracle answers other than hold/failure over a behaviour of Spec
MaxDecisions == 2
\* the oracle answers buy or sell only on the first TradeDays days of a scan
TradeDays == 2
\* applications of the executor in SpecExec
MaxExecSteps == 3

(* ------------------------- program constants --------------------------- *)

\* self.commission_rate = Decimal("0.001"): the rate is 1/CommissionDenom
CommissionDenom == 1000
\* get_initial_balance: Decimal("50000") for every market
InitialBalance == 50000
\* Decimal("0.99") of the available cash is spent by a clamped buy
ClampNum == 99
ClampDen == 100
\* fewer fetched klines than this fail the run
MinKlines == 20
\* fewer klines than this inside the window fall back to the recent ones
MinWindow == 10
\* the fallback keeps the most recent klines, at most this many
RecentDays == 60
\* the price history of a day reaches back this many klines
LookbackDays == 20
\* an Optional column holding None (average_cost, before the first buy)
Null == -1
\* the tokens the oracle reports for an answer (usage.total_tokens)
ResponseTokens == 1
\* stands for a sharpe_ratio computed as avg_return / std_return * sqrt(252);
\* the model does not carry its value
SharpeNonZero == 1

\* a Decimal amount of the currency, in the model's money unit
Dec(x) == x * CommissionDenom

\* floor(a * b / c) for a >= 0, b > 0, c > 0, without forming a * b
MulDiv(a, b, c) == (a \div c) * b + ((a % c) * b) \div c

(* ------------------------ TradingSimulation row ------------------------ *)

Statuses == {"pending", "running", "paused", "stopped", "completed", "failed"}

\* the row written by create_simulation (column defaults of the model)
NewSimulation ==
    [ status          |-> "pending",
      current_balance |-> Dec(InitialBalance),
      current_shares  |-> 0,
      average_cost    |-> Null,
      total_trades    |-> 0,
      winning_trades  |-> 0,
      losing_trades   |-> 0,
      total_profit_loss |-> 0,
      max_drawdown    |-> Null,
      sharpe_ratio    |-> Null,
      total_tokens_used |-> 0,
      total_llm_cost  |-> 0,
      summary         |-> "none",
      error_message   |-> "none",
      execution_logs  |-> << >> ]

\* _add_log (engine.py 25-36): the entry is appended to the list held by the
\* in-memory row.  An entry is written here as the phase of the run that
\* logged it; the empty sequence is the column's None (the empty list only
\* exists inside _add_log, between its assignment and its append)
AddLog(sim, entry) == [sim EXCEPT !.execution_logs = Append(@, entry)]

(* ------------------------------ the oracle ----------------------------- *)

\* what llm_provider.chat returns besides the content (provider.py 95-101):
\* the token count under the key total_tokens, the cost under cost_usd
Response == [total_tokens |-> ResponseTokens, cost_usd |-> 1]

\* response.get(key, default)
Get(response, key, default) ==
    IF key \in DOMAIN response THEN response[key] ELSE default

\* the usage _make_trading_decision puts into the decision it returns
\* (engine.py 320-321)
DecisionTokens == Get(Response, "tokens_used", 0)
DecisionCost == Get(Response, "cost_usd", 0)

(* ----------------------------- executor -------------------------------- *)

\* the whole balance divided by the price, no room left for the commission
ClampedBuyQuantityNoRoom(balance, price) == balance \div Dec(price)

\* quantity = (current_balance * 0.99) / (price * (1 + commission_rate))
ClampedBuyQuantity(balance, price) ==
    MulDiv(balance, ClampNum, ClampDen * price * (CommissionDenom + 1))

\* a commission of one percent
CommissionOnePercent(amount) == amount \div 100

\* commission = cost * self.commission_rate
Commission(amount) == amount \div CommissionDenom

\* a buy charged the bare cost
TotalCostNoFee(cost, commission) == cost

\* total_cost = cost + commission
TotalCost(cost, commission) == cost + commission

\* a sell credited the gross proceeds
NetProceedsGross(proceeds, commission) == proceeds

\* net_proceeds = proceeds - commission
NetProceeds(proceeds, commission) == proceeds - commission

\* simulation.average_cost or price
CostOr(avg, price) == IF avg = Null \/ avg = 0 THEN Dec(price) ELSE avg

\* a cost basis that follows the latest price paid
AverageCostLastPrice(shares_before, avg_before, cost, shares_after, price) ==
    Dec(price)

\* the average cost after a buy (engine.py 367-372): the blend of the cost
\* basis held and the cost of the shares bought, or the price paid when
\* nothing was held
AverageCost(shares_before, avg_before, cost, shares_after, price) ==
    IF shares_before > 0
    THEN (shares_before * CostOr(avg_before, price) + cost) \div shares_after
    ELSE Dec(price)

\* _execute_trade, action == "buy" (engine.py 346-411, 485-487)
Buy(sim, d, price, date, by) ==
    LET cost0      == d.quantity * Dec(price)
        total0     == TotalCost(cost0, Commission(cost0))
        clamp      == total0 > sim.current_balance
        quantity   == IF clamp
                      THEN ClampedBuyQuantity(sim.current_balance, price)
                      ELSE d.quantity
        cost       == quantity * Dec(price)
        commission == Commission(cost)
        total_cost == TotalCost(cost, commission)
        shares_after == sim.current_shares + quantity
        cash_after   == sim.current_balance - total_cost
        avg == AverageCost(sim.current_shares, sim.average_cost, cost,
                           shares_after, price)
    IN  IF quantity <= 0
        THEN [sim |-> sim, trade |-> << >>]
        ELSE [ sim   |-> [AddLog(sim, "trade")
                             EXCEPT !.current_shares = shares_after,
                                    !.current_balance = cash_after,
                                    !.average_cost = avg,
                                    !.total_trades = @ + 1],
               trade |-> << [ trade_date |-> date, action |-> "buy",
                              quantity |-> quantity, price |-> Dec(price),
                              total_amount |-> total_cost, commission |-> commission,
                              shares_before |-> sim.current_shares,
                              shares_after |-> shares_after,
                              cash_before |-> sim.current_balance,
                              cash_after |-> cash_after,
                              pnl_null |-> TRUE, realized_pnl |-> 0,
                              tokens_used |-> DecisionTokens,
                              llm_cost |-> DecisionCost,
                              by |-> by ] >> ]

\* a sell of the requested quantity whatever is held
SellQuantityAsked(requested, held) == requested

\* if quantity > simulation.current_shares: quantity = current_shares
SellQuantity(requested, held) == IF requested > held THEN held ELSE requested

\* a cost basis taken at the price of the sale
CostBasisAtPrice(quantity, avg, price) == quantity * Dec(price)

\* cost_basis = quantity * (simulation.average_cost or price)
CostBasis(quantity, avg, price) == quantity * CostOr(avg, price)

\* _execute_trade, action == "sell" (engine.py 413-487)
Sell(sim, d, price, date, by) ==
    LET quantity   == SellQuantity(d.quantity, sim.current_shares)
        proceeds   == quantity * Dec(price)
        commission == Commission(proceeds)
        net_proceeds == NetProceeds(proceeds, commission)
        cost_basis == CostBasis(quantity, sim.average_cost, price)
        realized_pnl == net_proceeds - cost_basis
        shares_after == sim.current_shares - quantity
        cash_after   == sim.current_balance + net_proceeds
    IN  IF quantity <= 0
        THEN [sim |-> sim, trade |-> << >>]
        ELSE [ sim   |-> [AddLog(sim, "trade")
                             EXCEPT !.current_shares = shares_after,
                                    !.current_balance = cash_after,
                                    !.winning_trades =
                                        IF realized_pnl > 0 THEN @ + 1 ELSE @,
                                    !.losing_trades =
                                        IF realized_pnl < 0 THEN @ + 1 ELSE @,
                                    !.total_trades = @ + 1],
               trade |-> << [ trade_date |-> date, action |-> "sell",
                              quantity |-> quantity, price |-> Dec(price),
                              total_amount |-> net_proceeds, commission |-> commission,
                              shares_before |-> sim.current_shares,
                              shares_after |-> shares_after,
                              cash_before |-> sim.current_balance,
                              cash_after |-> cash_after,
                              pnl_null |-> FALSE, realized_pnl |-> realized_pnl,
                              tokens_used |-> DecisionTokens,
                              llm_cost |-> DecisionCost,
                              by |-> by ] >> ]

\* an executor that counts a decision it does not execute as a trade
ExecuteTradeCounting(sim, d, price, date, by) ==
    LET r == IF d.action = "buy" THEN Buy(sim, d, price, date, by)
             ELSE Sell(sim, d, price, date, by)
    IN  IF d.quantity <= 0 \/ r.trade = << >>
        THEN [sim |-> [sim EXCEPT !.total_trades = @ + 1], trade |-> << >>]
        ELSE r

\* _execute_trade: the in-memory simulation after the call and the Trade it
\* adds to the session, if any (engine.py 328-487)
ExecuteTrade(sim, d, price, date, by) ==
    IF d.quantity <= 0 THEN [sim |-> sim, trade |-> << >>]
    ELSE IF d.action = "buy"  THEN Buy(sim, d, price, date, by)
    ELSE Sell(sim, d, price, date, by)

(* ------------------------------ market data ---------------------------- *)

\* start_date = 2026-02-01 and end_date = 2026-04-30, as day numbers
WinStart == 1
WinEnd == 89

\* daily closes, by day number (the instrument's history is the same for
\* every fetch)
Closes == <<100, 105, 95, 110>>
Close(date) == Closes[(date % Len(Closes)) + 1]

\* what market_data.get_kline returns: n daily klines dated first, first+1, ...
FetchCases ==
    { [first |-> 0, n |-> 0],
      [first |-> -8, n |-> MinKlines - 1],
      [first |-> -9, n |-> MinKlines] }

Min(a, b) == IF a < b THEN a ELSE b
Max(a, b) == IF a > b THEN a ELSE b

\* the klines of a fetch that fall inside [start_date, end_date]
InWindow(k) == {d \in k.first .. (k.first + k.n - 1) : WinStart <= d /\ d <= WinEnd}

\* sim_klines (engine.py 118-145): first date and number of days iterated
SelectDays(k) ==
    IF Cardinality(InWindow(k)) < MinWindow
    THEN LET L == Min(k.n, RecentDays)
         IN  [d0 |-> k.first + k.n - L, ndays |-> L]
    ELSE [d0 |-> Max(k.first, WinStart), ndays |-> Cardinality(InWindow(k))]

(* -------------------------------- state -------------------------------- *)

VARIABLES
    db,          \* the committed trading_simulations row
    trades,      \* the committed trades rows, in insertion order
    lock,        \* the task whose open transaction holds the row lock, or 0
    pend,        \* the row as flushed by that transaction (db when lock = 0)
    pendTrades,  \* the Trade rows flushed by that transaction
    queue,       \* dispatched tasks not yet picked up, by dispatching command
    task,        \* the executions of run_trading_simulation
    calls,       \* lifecycle handlers that passed their check, not yet committed
    rejected,    \* the command the latest step answered with HTTP 400, or "none"
    ndecisions   \* oracle decisions (buy/sell) answered so far

vars == <<db, trades, lock, pend, pendTrades, queue, task, calls, rejected,
          ndecisions>>

TaskIds == 1 .. MaxTasks

\* klines is the number of points the fetch returned; cancel is history:
\* a pause or a stop was committed while the task was inside the day loop
IdleTask == [pc |-> "idle", origin |-> "none", sim |-> NewSimulation,
             d0 |-> 0, ndays |-> 0, idx |-> 0, klines |-> Null,
             cancel |-> FALSE]

\* what the oracle may answer besides hold: action and quantity_shares
Decisions == {[action |-> "buy", quantity |-> 600], [action |-> "sell", quantity |-> 100]}

Init ==
    /\ db = NewSimulation
    /\ trades = << >>
    /\ lock = 0
    /\ pend = NewSimulation
    /\ pendTrades = << >>
    /\ queue = [start |-> 0, resume |-> 0]
    /\ task = [t \in TaskIds |-> IdleTask]
    /\ calls = [pause |-> 0, resume |-> 0, stop |-> 0]
    /\ rejected = "none"
    /\ ndecisions = 0

\* tasks submitted so far: queued, running or returned
Dispatched ==
    queue.start + queue.resume + Cardinality({t \in TaskIds : task[t].pc # "idle"})

(* --------------------------- lifecycle commands ------------------------ *)

\* the status checks of the four handlers (trading.py 122, 286, 322, 361)
CanStart(s)  == s = "pending"
CanPause(s)  == s = "running"
CanResume(s) == s = "paused"
\* a stop that is also accepted on a completed simulation
CanStopCompleted(s) == s \in {"pending", "running", "paused", "completed"}
CanStop(s)   == s \in {"pending", "running", "paused"}

\* HTTPException(400): the handler ends without writing
Rejected(cmd) ==
    /\ rejected' = cmd
    /\ UNCHANGED <<db, trades, lock, pend, pendTrades, queue, task, calls, ndecisions>>

\* start_simulation (trading.py 99-131): the status is read and the task is
\* submitted; the row is not written
StartSimulation ==
    IF CanStart(db.status)
    THEN /\ Dispatched < MaxTasks
         /\ queue' = [queue EXCEPT !.start = @ + 1]
         /\ rejected' = "none"
         /\ UNCHANGED <<db, trades, lock, pend, pendTrades, task, calls, ndecisions>>
    ELSE Rejected("start")

\* pause_simulation up to its check (trading.py 275-290)
PauseRead ==
    IF CanPause(db.status)
    THEN /\ calls.pause < MaxInFlight
         /\ calls' = [calls EXCEPT !.pause = @ + 1]
         /\ rejected' = "none"
         /\ UNCHANGED <<db, trades, lock, pend, pendTrades, queue, task, ndecisions>>
    ELSE Rejected("pause")

\* the tasks as a committed pause or stop finds them: the ones inside the
\* day loop (engine.py 152-206) are to break at their next status check
Cancelled ==
    [t \in DOMAIN task |->
        IF task[t].pc \in {"loop", "decide"}
        THEN [task[t] EXCEPT !.cancel = TRUE]
        ELSE task[t]]

\* pause_simulation: status = "paused", commit (trading.py 293-294); the
\* UPDATE waits for the row lock
PauseCommit ==
    /\ calls.pause > 0
    /\ lock = 0
    /\ calls' = [calls EXCEPT !.pause = @ - 1]
    /\ db' = [db EXCEPT !.status = "paused"]
    /\ pend' = db'
    /\ task' = Cancelled
    /\ rejected' = "none"
    /\ UNCHANGED <<trades, lock, pendTrades, queue, ndecisions>>

\* resume_simulation up to its check (trading.py 311-326)
ResumeRead ==
    IF CanResume(db.status)
    THEN /\ calls.resume < MaxInFlight
         /\ calls' = [calls EXCEPT !.resume = @ + 1]
         /\ rejected' = "none"
         /\ UNCHANGED <<db, trades, lock, pend, pendTrades, queue, task, ndecisions>>
    ELSE Rejected("resume")

\* resume_simulation: status = "pending", commit, then
\* run_trading_simulation.delay (trading.py 329-333)
ResumeCommit ==
    /\ calls.resume > 0
    /\ Dispatched < MaxTasks
    /\ lock = 0
    /\ calls' = [calls EXCEPT !.resume = @ - 1]
    /\ db' = [db EXCEPT !.status = "pending"]
    /\ pend' = db'
    /\ queue' = [queue EXCEPT !.resume = @ + 1]
    /\ rejected' = "none"
    /\ UNCHANGED <<trades, lock, pendTrades, task, ndecisions>>

\* stop_simulation up to its check (trading.py 350-365)
StopRead ==
    IF CanStop(db.status)
    THEN /\ calls.stop < MaxInFlight
         /\ calls' = [calls EXCEPT !.stop = @ + 1]
         /\ rejected' = "none"
         /\ UNCHANGED <<db, trades, lock, pend, pendTrades, queue, task, ndecisions>>
    ELSE Rejected("stop")

\* stop_simulation: status = "stopped", summary, commit (trading.py 368-370)
StopCommit ==
    /\ calls.stop > 0
    /\ lock = 0
    /\ calls' = [calls EXCEPT !.stop = @ - 1]
    /\ db' = [db EXCEPT !.status = "stopped", !.summary = "stopped by user"]
    /\ pend' = db'
    /\ task' = Cancelled
    /\ rejected' = "none"
    /\ UNCHANGED <<trades, lock, pendTrades, queue, ndecisions>>

(* ------------------------------ the session ---------------------------- *)

\* the simulation row as task t's session reads it
View(t) == IF lock = t THEN pend ELSE db

\* the row after the session's UPDATE: the columns whose in-memory value
\* changed since they were loaded are written, the others are left alone.
\* execution_logs is a plain JSONB column (models/trading.py 71): the session
\* sees the assignment _add_log makes when the column is None, never an
\* append to the list it holds
Flushed(t, old, new) ==
    [c \in DOMAIN old |->
        IF c = "execution_logs" /\ old[c] # << >> THEN View(t)[c]
        ELSE IF new[c] # old[c] THEN new[c] ELSE View(t)[c]]

\* the UPDATE can be issued: no other transaction holds the row lock
CanWrite(t) == lock = 0 \/ lock = t

\* a commit that leaves the flushed Trade rows invisible
CommittedTradesNone(t) == trades

\* the trades a commit of task t makes visible
CommittedTrades(t) == IF lock = t THEN trades \o pendTrades ELSE trades

(* ------------------------- run_trading_simulation ---------------------- *)

\* a worker that runs the simulation whatever its status
TaskStartAnyStatus(t, o) ==
    /\ queue[o] > 0
    /\ task[t].pc = "idle"
    /\ \A u \in TaskIds : u < t => task[u].pc # "idle"
    /\ queue' = [queue EXCEPT ![o] = @ - 1]
    /\ task' = [task EXCEPT ![t] =
                  [IdleTask EXCEPT !.pc = "begin", !.origin = o, !.sim = db]]
    /\ rejected' = "none"
    /\ UNCHANGED <<db, trades, lock, pend, pendTrades, calls, ndecisions>>

\* a worker picks the task up and selects the row (trading_tasks.py 69-104):
\* only a pending simulation is run
TaskStart(t, o) ==
    /\ queue[o] > 0
    /\ task[t].pc = "idle"
    /\ \A u \in TaskIds : u < t => task[u].pc # "idle"
    /\ queue' = [queue EXCEPT ![o] = @ - 1]
    /\ task' = [task EXCEPT ![t] =
                  IF db.status = "pending"
                  THEN [IdleTask EXCEPT !.pc = "begin", !.origin = o, !.sim = db]
                  ELSE [IdleTask EXCEPT !.pc = "done", !.origin = o]]
    /\ rejected' = "none"
    /\ UNCHANGED <<db, trades, lock, pend, pendTrades, calls, ndecisions>>

\* run_simulation: status = "running", flush (engine.py 95-99)
RunBegin(t) ==
    /\ task[t].pc = "begin"
    /\ CanWrite(t)
    /\ LET new == AddLog([task[t].sim EXCEPT !.status = "running"], "start")
       IN  /\ pend' = Flushed(t, task[t].sim, new)
           /\ task' = [task EXCEPT ![t].pc = "fetch", ![t].sim = new]
    /\ lock' = t
    /\ rejected' = "none"
    /\ UNCHANGED <<db, trades, pendTrades, queue, calls, ndecisions>>

\* the run entering the loop whatever the number of klines
AfterFetchAnyLength(tk, k) ==
    [tk EXCEPT !.pc = "loop", !.d0 = SelectDays(k).d0,
               !.ndays = SelectDays(k).ndays, !.idx = 0,
               !.sim = NewSimulation, !.klines = k.n]

\* where the run goes once the klines are there (engine.py 112-149)
AfterFetch(tk, k) ==
    IF k.n < MinKlines
    THEN [tk EXCEPT !.pc = "failing", !.klines = k.n,
                    !.sim = AddLog(@, "fetch")]
    ELSE [tk EXCEPT !.pc = "loop", !.d0 = SelectDays(k).d0,
                    !.ndays = SelectDays(k).ndays, !.idx = 0,
                    !.sim = NewSimulation, !.klines = k.n]

\* market_data.get_kline answered from the stock_klines table, by fresh rows
\* or, the provider failing, by stale ones: nothing is committed
\* (aggregator.py 119-139, 143-150)
FetchStored(t, k) ==
    /\ task[t].pc = "fetch"
    /\ task' = [task EXCEPT ![t] = AfterFetch(task[t], k)]
    /\ rejected' = "none"
    /\ UNCHANGED <<db, trades, lock, pend, pendTrades, queue, calls, ndecisions>>

\* market_data.get_kline answered by the provider: save_klines commits the
\* session, and with it the flushed status (aggregator.py 140-153,
\* repository.py 169)
FetchSaved(t, k) ==
    /\ task[t].pc = "fetch"
    /\ task' = [task EXCEPT ![t] = AfterFetch(task[t], k)]
    /\ db' = View(t)
    /\ pend' = View(t)
    /\ trades' = CommittedTrades(t)
    /\ pendTrades' = IF lock = t THEN << >> ELSE pendTrades
    /\ lock' = IF lock = t THEN 0 ELSE lock
    /\ rejected' = "none"
    /\ UNCHANGED <<queue, calls, ndecisions>>

\* market_data.get_kline raises (aggregator.py 143-149)
FetchError(t) ==
    /\ task[t].pc = "fetch"
    /\ task' = [task EXCEPT ![t].pc = "failing",
                             ![t].sim = AddLog(@, "fetch")]
    /\ rejected' = "none"
    /\ UNCHANGED <<db, trades, lock, pend, pendTrades, queue, calls, ndecisions>>

\* the head of the day loop (engine.py 152-160): the break when the status
\* read by the refresh is stopped or paused
Breaks(s) == s \in {"stopped", "paused"}

\* a loop that stays on the day it has handled
NextDayAgain(tk) == [tk EXCEPT !.pc = "loop", !.sim = NewSimulation]

\* the next position of the loop after day idx (0-based) was handled; when
\* another day follows, its refresh expires and reloads the in-memory row
NextDay(tk) ==
    IF tk.idx + 1 < tk.ndays
    THEN [tk EXCEPT !.pc = "loop", !.idx = @ + 1, !.sim = NewSimulation]
    ELSE [tk EXCEPT !.pc = "finish", !.idx = @ + 1, !.cancel = FALSE]

\* the refresh reads stopped or paused: break (engine.py 154-160)
DayBreak(t) ==
    /\ task[t].pc = "loop"
    /\ Breaks(View(t).status)
    /\ task' = [task EXCEPT ![t].sim = AddLog(View(t), "break"),
                             ![t].pc = "finish", ![t].cancel = FALSE]
    /\ rejected' = "none"
    /\ UNCHANGED <<db, trades, lock, pend, pendTrades, queue, calls, ndecisions>>

\* the oracle's answer was parsed: its cost is added to the in-memory row
\* (engine.py 301-305; the provider's answer carries no tokens_used)
Billed(sim) ==
    [sim EXCEPT !.total_tokens_used = @ + Get(Response, "tokens_used", 0),
                !.total_llm_cost = @ + Get(Response, "cost_usd", 0)]

\* a day on which _make_trading_decision returns None because the oracle
\* call or the parsing of its answer raised (engine.py 154-185, 203-206,
\* 324-326)
DayHold(t) ==
    /\ task[t].pc = "loop"
    /\ ~Breaks(View(t).status)
    /\ task' = [task EXCEPT ![t] =
                    NextDay([task[t] EXCEPT !.sim = AddLog(View(t), "day")])]
    /\ rejected' = "none"
    /\ UNCHANGED <<db, trades, lock, pend, pendTrades, queue, calls, ndecisions>>

\* a day on which the oracle is going to answer buy or sell: the refresh and
\* the call (engine.py 154-185)
DayDecide(t) ==
    /\ task[t].pc = "loop"
    /\ ~Breaks(View(t).status)
    /\ ndecisions < MaxDecisions
    /\ task[t].idx < TradeDays
    /\ ndecisions' = ndecisions + 1
    /\ task' = [task EXCEPT ![t].sim = AddLog(View(t), "day"),
                             ![t].pc = "decide"]
    /\ rejected' = "none"
    /\ UNCHANGED <<db, trades, lock, pend, pendTrades, queue, calls>>

\* the decision is returned and _execute_trade runs on the day's close
\* (engine.py 187-202); an executed trade is flushed with the row
DayTrade(t, d) ==
    /\ task[t].pc = "decide"
    /\ LET date == task[t].d0 + task[t].idx
           r    == ExecuteTrade(Billed(task[t].sim), d, Close(date), date, t)
       IN  IF r.trade = << >>
           THEN /\ task' = [task EXCEPT ![t] = NextDay([task[t] EXCEPT !.sim = r.sim])]
                /\ UNCHANGED <<lock, pend, pendTrades>>
           ELSE /\ CanWrite(t)
                /\ lock' = t
                /\ pend' = Flushed(t, task[t].sim, r.sim)
                /\ pendTrades' = (IF lock = t THEN pendTrades ELSE << >>) \o r.trade
                /\ task' = [task EXCEPT ![t] = NextDay([task[t] EXCEPT !.sim = r.sim])]
    /\ rejected' = "none"
    /\ UNCHANGED <<db, trades, queue, calls, ndecisions>>

\* sum(t.realized_pnl or 0 for t in trades)
RECURSIVE RealizedSum(_)
RealizedSum(ts) ==
    IF ts = << >> THEN 0
    ELSE (IF Head(ts).pnl_null THEN 0 ELSE Head(ts).realized_pnl)
           + RealizedSum(Tail(ts))

\* trades[-1].price of the Trades ordered by trade_date
LastPrice(ts) ==
    LET i == CHOOSE j \in DOMAIN ts :
                 \A k \in DOMAIN ts : ts[k].trade_date <= ts[j].trade_date
    IN  ts[i].price

\* the Trades as select ... order_by(Trade.trade_date) returns them
\* (engine.py 492-495); Trades of one date stay in insertion order
RECURSIVE ByDate(_)
ByDate(ts) ==
    IF ts = << >> THEN << >>
    ELSE LET i == CHOOSE j \in DOMAIN ts :
                     /\ \A k \in DOMAIN ts : ts[j].trade_date <= ts[k].trade_date
                     /\ \A k \in 1 .. (j - 1) : ts[k].trade_date # ts[j].trade_date
         IN  <<ts[i]>> \o ByDate(SubSeq(ts, 1, i - 1) \o SubSeq(ts, i + 1, Len(ts)))

\* total_value = trade.cash_after + trade.shares_after * trade.price
PortfolioValue(tr) == tr.cash_after + tr.shares_after * tr.price

\* a / b < c / d for a, c >= 0 and b, d > 0, without forming a product
RECURSIVE FracLess(_, _, _, _)
FracLess(a, b, c, d) ==
    IF a \div b # c \div d THEN a \div b < c \div d
    ELSE IF c % d = 0 THEN FALSE
    ELSE IF a % b = 0 THEN TRUE
    ELSE FracLess(d, c % d, b, a % b)

\* a drawdown reported in percent of the peak
DrawdownPercent(peak, value) ==
    IF peak > 0 THEN [num |-> 100 * (peak - value), den |-> peak]
    ELSE [num |-> 0, den |-> 1]

\* dd = (peak - value) / peak if peak > 0 else Decimal("0"), as the fraction
\* num / den (engine.py 532)
Drawdown(peak, value) ==
    IF peak > 0 THEN [num |-> peak - value, den |-> peak]
    ELSE [num |-> 0, den |-> 1]

\* the loop over portfolio_values (engine.py 529-534): the running peak and
\* the largest drawdown seen
RECURSIVE DrawdownFrom(_, _, _)
DrawdownFrom(ts, peak, max_dd) ==
    IF ts = << >> THEN max_dd
    ELSE LET value == PortfolioValue(Head(ts))
             pk    == IF value > peak THEN value ELSE peak
             dd    == Drawdown(pk, value)
         IN  DrawdownFrom(Tail(ts), pk,
                          IF FracLess(max_dd.num, max_dd.den, dd.num, dd.den)
                          THEN dd ELSE max_dd)

\* max_dd of _calculate_metrics for a non-empty list of Trades
\* (engine.py 512-535)
MaxDrawdown(ts) ==
    DrawdownFrom(ByDate(ts), PortfolioValue(ByDate(ts)[1]), [num |-> 0, den |-> 1])

\* max_drawdown as the column Numeric(15, 2) keeps it (models/trading.py
\* 49): in hundredths, rounded
Hundredths(dd) == (100 * dd.num + dd.den \div 2) \div dd.den

\* greatest common divisor, to put a return in lowest terms
RECURSIVE Gcd(_, _)
Gcd(a, b) == IF b = 0 THEN a ELSE Gcd(b, a % b)

\* daily_return = (total_value - prev_value) / prev_value, in lowest terms
Return(prev_value, total_value) ==
    LET n == total_value - prev_value
        g == Gcd(IF n < 0 THEN -n ELSE n, prev_value)
    IN  [num |-> n \div g, den |-> prev_value \div g]

\* returns (engine.py 515-525): one per Trade after the first whose
\* predecessor is worth more than 0
RECURSIVE ReturnsFrom(_, _)
ReturnsFrom(prev_value, ts) ==
    IF ts = << >> THEN << >>
    ELSE LET total_value == PortfolioValue(Head(ts))
         IN  (IF prev_value > 0 THEN <<Return(prev_value, total_value)>>
              ELSE << >>) \o ReturnsFrom(total_value, Tail(ts))

Returns(ts) ==
    IF ts = << >> THEN << >>
    ELSE ReturnsFrom(PortfolioValue(ByDate(ts)[1]), Tail(ByDate(ts)))

\* sharpe_ratio after _calculate_metrics (engine.py 537-547): assigned only
\* when there are at least two returns, and then 0 when their standard
\* deviation is 0, that is when they are all equal
SharpeRatio(old, returns) ==
    IF Len(returns) > 1
    THEN IF \E i \in DOMAIN returns : returns[i] # returns[1]
         THEN SharpeNonZero ELSE 0
    ELSE old

\* metrics that count the realized profit and loss only
MetricsRealizedOnly(sim, ts) ==
    IF ts = << >> THEN sim
    ELSE [sim EXCEPT !.total_profit_loss = RealizedSum(ts)]

\* _calculate_metrics (engine.py 489-547): the metrics, from the
\* Trades ts the session reads; nothing is written when there are none
Metrics(sim, ts) ==
    IF ts = << >> THEN sim
    ELSE LET last == LastPrice(ts)
             avg  == IF sim.average_cost = Null \/ sim.average_cost = 0
                     THEN last ELSE sim.average_cost
             unrealized == IF sim.current_shares > 0
                           THEN sim.current_shares * last - sim.current_shares * avg
                           ELSE 0
         IN  [sim EXCEPT !.total_profit_loss = RealizedSum(ts) + unrealized,
                         !.max_drawdown = Hundredths(MaxDrawdown(ts)),
                         !.sharpe_ratio = SharpeRatio(@, Returns(ts))]

\* an end of the loop that marks the run failed
CompletedAsFailed(sim, ts) == [sim EXCEPT !.status = "failed"]

\* what the end of the loop writes (engine.py 208-219)
Completed(sim, ts) ==
    [Metrics(sim, ts) EXCEPT !.status = "completed", !.summary = "generated"]

\* after the loop: metrics, status and summary, flush, and the task's commit
\* (engine.py 208-219, 227; trading_tasks.py 109)
Finish(t) ==
    /\ task[t].pc = "finish"
    /\ CanWrite(t)
    /\ db' = Flushed(t, task[t].sim,
                     Completed(AddLog(task[t].sim, "done"), CommittedTrades(t)))
    /\ pend' = db'
    /\ trades' = CommittedTrades(t)
    /\ pendTrades' = << >>
    /\ lock' = 0
    /\ task' = [task EXCEPT ![t].pc = "done", ![t].sim = NewSimulation]
    /\ rejected' = "none"
    /\ UNCHANGED <<queue, calls, ndecisions>>

\* the engine's except branch (engine.py 221-227) and the task's commit
Failed(sim) == [sim EXCEPT !.status = "failed", !.error_message = "set"]

Fail(t) ==
    /\ task[t].pc = "failing"
    /\ CanWrite(t)
    /\ db' = Flushed(t, task[t].sim, Failed(AddLog(task[t].sim, "error")))
    /\ pend' = db'
    /\ trades' = CommittedTrades(t)
    /\ pendTrades' = << >>
    /\ lock' = 0
    /\ task' = [task EXCEPT ![t].pc = "done", ![t].sim = NewSimulation]
    /\ rejected' = "none"
    /\ UNCHANGED <<queue, calls, ndecisions>>

\* task t is inside the day loop of run_simulation
InLoop(t) == task[t].pc \in {"loop", "decide"}

(* ------------------------------ behaviours ----------------------------- *)

Command ==
    \/ StartSimulation
    \/ PauseRead
    \/ PauseCommit
    \/ ResumeRead
    \/ ResumeCommit
    \/ StopRead
    \/ StopCommit

WorkerOf(t) ==
    \/ \E o \in {"start", "resume"} : TaskStart(t, o)
    \/ RunBegin(t)
    \/ \E k \in FetchCases : FetchStored(t, k)
    \/ \E k \in FetchCases : FetchSaved(t, k)
    \/ FetchError(t)
    \/ DayBreak(t)
    \/ DayHold(t)
    \/ DayDecide(t)
    \/ \E d \in Decisions : DayTrade(t, d)
    \/ Finish(t)
    \/ Fail(t)

Worker == \E t \in TaskIds : WorkerOf(t)

Next == Command \/ Worker

Spec == Init /\ [][Next]_vars

(* ------------- one execution, its oracle and its store ----------------- *)

\* a day on which the oracle's answer parses but names an action outside
\* buy, sell and hold: the cost of the answer is added, the action becomes
\* hold and None is returned (engine.py 301-313; an answer of hold takes the
\* same path)
DayInvalid(t) ==
    /\ task[t].pc = "loop"
    /\ ~Breaks(View(t).status)
    /\ task' = [task EXCEPT ![t] =
                    NextDay([task[t] EXCEPT !.sim = Billed(AddLog(View(t), "day"))])]
    /\ rejected' = "none"
    /\ UNCHANGED <<db, trades, lock, pend, pendTrades, queue, calls, ndecisions>>

\* a statement of the session raises inside the loop (the refresh, or the
\* flush of _execute_trade): the except branch of run_simulation sets
\* failed, its flush raises again on the broken transaction, the exception
\* leaves run_simulation before the commit and the session is closed, which
\* rolls its transaction back (engine.py 221-227, trading_tasks.py 69-109,
\* 124-125)
StoreFail(t) ==
    /\ InLoop(t)
    /\ pend' = IF lock = t THEN db ELSE pend
    /\ pendTrades' = IF lock = t THEN << >> ELSE pendTrades
    /\ lock' = IF lock = t THEN 0 ELSE lock
    /\ task' = [task EXCEPT ![t].pc = "except", ![t].sim = NewSimulation,
                             ![t].cancel = FALSE]
    /\ rejected' = "none"
    /\ UNCHANGED <<db, trades, queue, calls, ndecisions>>

\* the task's except branch (trading_tasks.py 124-147): a new session
\* selects the row and marks it failed when it is pending or running
TaskExcept(t) ==
    /\ task[t].pc = "except"
    /\ IF db.status \in {"pending", "running"}
       THEN /\ lock = 0
            /\ db' = Failed(db)
            /\ pend' = db'
       ELSE UNCHANGED <<db, pend>>
    /\ task' = [task EXCEPT ![t].pc = "done"]
    /\ rejected' = "none"
    /\ UNCHANGED <<trades, lock, pendTrades, queue, calls, ndecisions>>

\* the new session of the except branch fails as well: the error is logged
\* and the row is left as it is (trading_tasks.py 138-139)
TaskExceptFails(t) ==
    /\ task[t].pc = "except"
    /\ task' = [task EXCEPT ![t].pc = "done"]
    /\ rejected' = "none"
    /\ UNCHANGED <<db, trades, lock, pend, pendTrades, queue, calls, ndecisions>>

\* the first execution of the task, with an oracle that may answer anything
\* and a store that may fail
NextRun ==
    \/ Command
    \/ WorkerOf(1)
    \/ DayInvalid(1)
    \/ StoreFail(1)
    \/ TaskExcept(1)
    \/ TaskExceptFails(1)

SpecRun == Init /\ [][NextRun]_vars

\* the steps of task t that the worker takes by itself once they are
\* enabled: everything but the return of an oracle call, for which neither
\* chat() nor _make_trading_decision nor the task sets a time limit
\* (provider.py 68-83, engine.py 283-289)
Scheduled(t) ==
    \/ \E o \in {"start", "resume"} : TaskStart(t, o)
    \/ RunBegin(t)
    \/ \E k \in FetchCases : FetchStored(t, k)
    \/ \E k \in FetchCases : FetchSaved(t, k)
    \/ FetchError(t)
    \/ DayBreak(t)
    \/ \E d \in Decisions : DayTrade(t, d)
    \/ Finish(t)
    \/ Fail(t)

\* the first execution of the task under a worker that keeps running it
NextLive ==
    \/ Command
    \/ WorkerOf(1)
    \/ DayInvalid(1)

SpecLive == Init /\ [][NextLive]_vars /\ WF_vars(Scheduled(1))

(* ---------------------- the executor on its own ------------------------ *)

\* decisions and closes handed to _execute_trade
ExecDecisions ==
    [action : {"buy", "sell"}, quantity : {0, 50, 100, 600}]
ExecPrices == {95, 100, 110}

\* one call of _execute_trade on the ledger, and the flush of its result
\* (engine.py 328-487)
ExecStep(d, price) ==
    /\ ndecisions < MaxExecSteps
    /\ LET r == ExecuteTrade(db, d, price, ndecisions, 0)
       IN  /\ db' = r.sim
           /\ pend' = r.sim
           /\ trades' = trades \o r.trade
    /\ ndecisions' = ndecisions + 1
    /\ UNCHANGED <<lock, pendTrades, queue, task, calls, rejected>>

NextExec == \E d \in ExecDecisions, price \in ExecPrices : ExecStep(d, price)

SpecExec == Init /\ [][NextExec]_vars


(* -------------------- a scan of four days of closes -------------------- *)

\* what the oracle answers on a day of the scan: hold, or buy or sell 50 or
\* 100 shares
ScanDecisions ==
    [action : {"buy", "sell"}, quantity : {50, 100}]
        \cup {[action |-> "hold", quantity |-> 0]}

\* one day of the loop of run_simulation on the ledger (engine.py 152-206):
\* day number ndecisions, priced at its close; on hold
\* _make_trading_decision returns None and nothing is executed
ScanDay(d) ==
    /\ ndecisions < Len(Closes)
    /\ LET r == IF d.action = "hold"
                THEN [sim |-> db, trade |-> << >>]
                ELSE ExecuteTrade(db, d, Close(ndecisions), ndecisions, 0)
       IN  /\ db' = r.sim
           /\ pend' = r.sim
           /\ trades' = trades \o r.trade
    /\ ndecisions' = ndecisions + 1
    /\ UNCHANGED <<lock, pendTrades, queue, task, calls, rejected>>

\* the end of run_simulation once the four days are through
\* (engine.py 208-219)
ScanEnd ==
    /\ ndecisions = Len(Closes)
    /\ db.status = "pending"
    /\ db' = Completed(db, trades)
    /\ pend' = db'
    /\ UNCHANGED <<trades, lock, pendTrades, queue, task, calls, rejected,
                   ndecisions>>

NextScan ==
    \/ \E d \in ScanDecisions : ScanDay(d)
    \/ ScanEnd

SpecScan == Init /\ [][NextScan]_vars


(* ----------------- the selection of the days of a run ------------------ *)

\* what market_data.get_kline may return to a run that goes on: n daily
\* klines dated first .. first + n - 1, oldest first from the provider
\* (twelvedata.py 137), newest first from the stock_klines table
\* (repository.py 106)
WindowFetches ==
    [first : {-110, -60, -9, 1, 81}, n : {20, 29, 59, 60, 61, 100},
     desc : BOOLEAN]

\* the dates of the klines of a fetch, in the order of the list returned
FetchedDates(k) ==
    [i \in 1 .. k.n |-> IF k.desc THEN k.first + k.n - i ELSE k.first + i - 1]

\* sim_start <= k_dt <= sim_end (engine.py 137)
InPeriod(date) == WinStart <= date /\ date <= WinEnd

\* klines[-60:] if len(klines) >= 60 else klines (engine.py 144)
LastKlines(klines) ==
    IF Len(klines) >= RecentDays
    THEN SubSeq(klines, Len(klines) - RecentDays + 1, Len(klines))
    ELSE klines

\* whether the run falls back to the klines at the end of the list
\* (engine.py 142)
FallsBack(klines) == Len(SelectSeq(klines, InPeriod)) < MinWindow

\* sim_klines (engine.py 118-145)
SimKlines(klines) ==
    IF FallsBack(klines) THEN LastKlines(klines)
    ELSE SelectSeq(klines, InPeriod)

\* a price history that reaches one kline past the day
LookbackAhead(sim_klines, idx) ==
    SubSeq(sim_klines, Max(0, idx - LookbackDays) + 1,
           Min(idx + 2, Len(sim_klines)))

\* lookback = sim_klines[max(0, idx-20):idx+1], idx counted from 0
\* (engine.py 162)
Lookback(sim_klines, idx) ==
    SubSeq(sim_klines, Max(0, idx - LookbackDays) + 1, idx + 1)

\* a run about to fetch: the klines fetched, the days selected, the number
\* of days handed to _make_trading_decision, the price history handed over
\* with the latest of them, and the entries added to the log
WindowTask ==
    [pc |-> "fetch", klines |-> << >>, days |-> << >>, idx |-> 0,
     lookback |-> << >>, execution_logs |-> << >>]

InitWindow ==
    /\ db = NewSimulation
    /\ trades = << >>
    /\ lock = 0
    /\ pend = NewSimulation
    /\ pendTrades = << >>
    /\ queue = [start |-> 0, resume |-> 0]
    /\ task = <<WindowTask>>
    /\ calls = [pause |-> 0, resume |-> 0, stop |-> 0]
    /\ rejected = "none"
    /\ ndecisions = 0

\* get_kline returns 20 klines or more (engine.py 105-116)
WindowFetch(k) ==
    /\ task[1].pc = "fetch"
    /\ task' = [task EXCEPT ![1].pc = "select", ![1].klines = FetchedDates(k)]
    /\ UNCHANGED <<db, trades, lock, pend, pendTrades, queue, calls, rejected,
                   ndecisions>>

\* the days are selected and the loop is announced (engine.py 118-149)
WindowSelect ==
    /\ task[1].pc = "select"
    /\ task' = [task EXCEPT
                  ![1].pc = "days",
                  ![1].days = SimKlines(task[1].klines),
                  ![1].execution_logs =
                      (IF FallsBack(task[1].klines) THEN <<"fallback">>
                       ELSE << >>) \o <<"loop">>]
    /\ UNCHANGED <<db, trades, lock, pend, pendTrades, queue, calls, rejected,
                   ndecisions>>

\* one day of the loop is announced and its price history is handed to
\* _make_trading_decision (engine.py 152-185)
WindowDay ==
    /\ task[1].pc = "days"
    /\ task[1].idx < Len(task[1].days)
    /\ task' = [task EXCEPT ![1].idx = @ + 1,
                            ![1].lookback = Lookback(task[1].days, task[1].idx),
                            ![1].execution_logs = Append(@, "day")]
    /\ UNCHANGED <<db, trades, lock, pend, pendTrades, queue, calls, rejected,
                   ndecisions>>

NextWindow == (\E k \in WindowFetches : WindowFetch(k)) \/ WindowSelect \/ WindowDay
SpecWindow == InitWindow /\ [][NextWindow]_vars


\* a recorded Trade whose quantity is not the one the oracle asked for
Clamped(tr) == tr.quantity \notin {d.quantity : d \in ExecDecisions}

\* C8: after every executed trade the shares held and the cash are
\* non-negative, in the ledger and in the snapshots of every Trade
C8_NonNegative ==
    /\ db.current_shares >= 0
    /\ db.current_balance >= 0
    /\ \A i \in DOMAIN trades :
          trades[i].shares_after >= 0 /\ trades[i].cash_after >= 0

\* a buy clamped to the cash at hand and a sell clamped to the shares held
\* have both been executed
C8_Witness ==
    /\ \E i \in DOMAIN trades : trades[i].action = "buy" /\ Clamped(trades[i])
    /\ \E i \in DOMAIN trades : trades[i].action = "sell" /\ Clamped(trades[i])

\* C9: every Trade has a positive quantity and its snapshots satisfy, for a
\* buy, shares_after = shares_before + quantity, cash_after = cash_before -
\* total_amount and total_amount = quantity * price + commission, and for a
\* sell the same with the shares subtracted, the amount added and
\* total_amount = quantity * price - commission
C9_SnapshotEquations ==
    \A i \in DOMAIN trades :
        LET tr == trades[i]
        IN  /\ tr.quantity > 0
            /\ tr.action = "buy" =>
                  /\ tr.shares_after = tr.shares_before + tr.quantity
                  /\ tr.cash_after = tr.cash_before - tr.total_amount
                  /\ tr.total_amount = tr.quantity * tr.price + tr.commission
            /\ tr.action = "sell" =>
                  /\ tr.shares_after = tr.shares_before - tr.quantity
                  /\ tr.cash_after = tr.cash_before + tr.total_amount
                  /\ tr.total_amount = tr.quantity * tr.price - tr.commission

\* a buy and a later sell are on record, both with a commission charged
C9_Witness ==
    \E i, j \in DOMAIN trades :
        /\ i < j
        /\ trades[i].action = "buy" /\ trades[i].commission > 0
        /\ trades[j].action = "sell" /\ trades[j].commission > 0

\* C10: valued at the execution price, what the ledger holds after a trade
\* is what it held before less the commission
C10_Conservation ==
    \A i \in DOMAIN trades :
        LET tr == trades[i]
        IN  tr.cash_after + tr.shares_after * tr.price
              = tr.cash_before + tr.shares_before * tr.price - tr.commission

\* a clamped buy, and a sell of part of the position at another price
C10_Witness ==
    \E i, j \in DOMAIN trades :
        /\ trades[i].action = "buy" /\ Clamped(trades[i])
        /\ trades[j].action = "sell" /\ trades[j].shares_after > 0
        /\ trades[j].price # trades[i].price


(* ----------------------------- lifecycle ------------------------------- *)

\* C1: at most one execution of the task is inside the simulation loop
C1_SingleExecution == Cardinality({t \in TaskIds : InLoop(t)}) <= 1

\* C2: the step in which start dispatches its task also moves the status
\* from pending to running, so that a second start finds it running
C2_StartAtomic ==
    [][queue'.start > queue.start => db'.status = "running"]_vars

Terminal == {"stopped", "completed", "failed"}

\* C3: once the persisted status is stopped, completed or failed, no step
\* changes it
C3_TerminalAbsorbing ==
    [][db.status \in Terminal => db'.status = db.status]_vars

\* C4: when the loop was left because the refresh read stopped or paused,
\* the end of the run leaves the persisted status as it was read
C4_BreakKeepsStatus ==
    [][\A t \in TaskIds :
          (task[t].pc = "finish" /\ Breaks(task[t].sim.status)
             /\ task'[t].pc = "done")
          => db'.status = task[t].sim.status]_vars

\* C5: the attempt dispatched by a resume records no Trade for a day for
\* which another attempt recorded one: no two such Trades share a trade_date
C5_NoDuplicateTrades ==
    \A i, j \in DOMAIN trades :
        (/\ i # j
         /\ trades[i].by # trades[j].by
         /\ task[trades[j].by].origin = "resume")
        => trades[i].trade_date # trades[j].trade_date

\* C6: once a stop has committed stopped, the status is not set to pending
\* by a resume that was racing with it
C6_StopBeatsResume ==
    [][(db.status = "stopped" /\ calls.resume > 0) => db'.status # "pending"]_vars

\* C7: start is accepted only when the status it reads is pending, pause
\* only running, resume only paused, stop only pending, running or paused;
\* a command answered with a rejection read another status and changes
\* neither the row, the Trades, the dispatched tasks nor the executions
C7_Legality ==
    [][/\ queue'.start > queue.start => db.status = "pending"
       /\ calls'.pause > calls.pause => db.status = "running"
       /\ calls'.resume > calls.resume => db.status = "paused"
       /\ calls'.stop > calls.stop => db.status \in {"pending", "running", "paused"}
       /\ rejected' = "start" => db.status # "pending"
       /\ rejected' = "pause" => db.status # "running"
       /\ rejected' = "resume" => db.status # "paused"
       /\ rejected' = "stop" => db.status \in Terminal
       /\ rejected' # "none" =>
             UNCHANGED <<db, trades, pend, pendTrades, queue, task, calls>>]_vars

\* a stop was rejected on a completed simulation that has Trades, after a
\* pause and a resume had been accepted
C7_Witness ==
    /\ rejected = "stop"
    /\ db.status = "completed"
    /\ Len(trades) > 0
    /\ \E t \in TaskIds : task[t].origin = "resume"


\* C11: a buy whose cost plus commission exceeds the cash is executed with
\* quantity cash * 0.99 / (price * (1 + rate)) and a total_amount within the
\* cash; a sell of more than is held is executed with the shares held; a
\* decision that is affordable, or not larger than the holding, is executed
\* with the requested quantity
C11_Clamping ==
    [][\A d \in ExecDecisions, price \in ExecPrices :
          (ExecStep(d, price) /\ trades' # trades) =>
            LET tr   == trades'[Len(trades')]
                cost == d.quantity * Dec(price)
                over == cost + Commission(cost) > db.current_balance
            IN  /\ (d.action = "buy" /\ over) =>
                      /\ tr.quantity = ClampedBuyQuantity(db.current_balance, price)
                      /\ tr.total_amount <= tr.cash_before
                /\ (d.action = "buy" /\ ~over) => tr.quantity = d.quantity
                /\ (d.action = "sell" /\ d.quantity > db.current_shares) =>
                      /\ tr.quantity = db.current_shares
                      /\ tr.quantity <= tr.shares_before
                /\ (d.action = "sell" /\ d.quantity <= db.current_shares) =>
                      tr.quantity = d.quantity]_vars

\* a clamped buy, a clamped sell and a trade of the requested quantity are
\* on record
C11_Witness ==
    /\ \E i \in DOMAIN trades : trades[i].action = "buy" /\ Clamped(trades[i])
    /\ \E i \in DOMAIN trades : trades[i].action = "sell" /\ Clamped(trades[i])
    /\ \E i \in DOMAIN trades : ~Clamped(trades[i])


\* C12: in every persisted state total_trades is the number of Trade
\* records and winning_trades + losing_trades is at most total_trades
C12_Counters ==
    /\ db.total_trades = Len(trades)
    /\ db.winning_trades + db.losing_trades <= db.total_trades


\* the columns of the row that _execute_trade writes
Ledger(row) ==
    <<row.current_balance, row.current_shares, row.average_cost,
      row.total_trades, row.winning_trades, row.losing_trades>>

\* C13: a reader of the committed store sees a Trade and the update of the
\* simulation's balance, shares and counters it belongs to appear in one
\* and the same commit, never one without the other
C13_CommittedTogether ==
    [][/\ Ledger(db') # Ledger(db) => trades' # trades
       /\ trades' # trades =>
             /\ trades' = trades \o pendTrades
             /\ Ledger(db') = Ledger(pend)]_vars

\* Trades of one attempt are committed with their ledger while another
\* attempt holds flushed Trades that are not visible yet
C13_Witness ==
    /\ Len(trades) > 0
    /\ db.total_trades > 0
    /\ Len(pendTrades) > 0


\* C14: when the oracle never gives a decision, the attempt of a freshly
\* started simulation (the one task dispatched for it) that got its market
\* data ends with status completed, no trade, no profit or loss, the
\* initial cash and no shares
C14_OracleFailureIsolation ==
    [][\A t \in TaskIds :
          (/\ task[t].pc = "finish" /\ task'[t].pc = "done"
           /\ task[t].origin = "start"
           /\ Dispatched = 1
           /\ ndecisions = 0)
          => /\ db'.status = "completed"
             /\ db'.total_trades = 0
             /\ db'.total_profit_loss = 0
             /\ db'.current_balance = Dec(InitialBalance)
             /\ db'.current_shares = 0
             /\ trades' = << >>]_vars

\* a started attempt went through every day of its window without a
\* decision and has ended
C14_Witness ==
    /\ ndecisions = 0
    /\ Dispatched = 1
    /\ db.status = "completed"
    /\ \E t \in TaskIds :
          /\ task[t].pc = "done" /\ task[t].origin = "start"
          /\ task[t].ndays >= MinWindow /\ task[t].idx = task[t].ndays

\* C15: a day on which the oracle names an action outside buy, sell and hold
\* is a day without a decision: the row the execution goes on to persist has
\* the cost, the cash, the shares, the average cost and the status it had
\* when the day opened, and no Trade is added (stated for the last day of
\* the window, whose row is the one the final flush writes)
C15_NoDecisionIsFree ==
    [][\A t \in TaskIds :
          (DayInvalid(t) /\ task'[t].pc = "finish")
          => /\ task'[t].sim.total_llm_cost = View(t).total_llm_cost
             /\ Ledger(task'[t].sim) = Ledger(View(t))
             /\ task'[t].sim.status = View(t).status
             /\ trades' = trades
             /\ pendTrades' = pendTrades]_vars

\* C16: every execution that has started eventually ends, and when it has
\* ended the status is not left at running
C16_AttemptEnds ==
    \A t \in TaskIds :
        (task[t].pc \notin {"idle", "done"})
            ~> (task[t].pc = "done" /\ db.status # "running")

\* C17: when an exception leaves a step of an execution, every Trade the
\* simulation has written so far, committed or flushed by the execution, is
\* still in the store afterwards
C17_FailureKeepsTrades ==
    [][\A t \in TaskIds :
          StoreFail(t)
          => Len(trades') + Len(pendTrades') >= Len(trades) + Len(pendTrades)]_vars

\* C18: a fetch that returns no klines or fewer than 20 takes the execution
\* to its failure branch before any day is visited, and the execution then
\* ends with status failed and the error message set, leaving the Trades,
\* the cash, the shares, the counters and the number of oracle decisions as
\* they were
C18_InsufficientData ==
    [][\A t \in TaskIds :
          /\ \A k \in FetchCases :
                ((FetchStored(t, k) \/ FetchSaved(t, k)) /\ k.n < MinKlines)
                => /\ task'[t].pc = "failing"
                   /\ task'[t].ndays = 0
                   /\ trades' = trades
                   /\ Ledger(db') = Ledger(db)
                   /\ ndecisions' = ndecisions
          /\ (/\ task[t].pc = "failing" /\ task'[t].pc = "done"
              /\ task[t].klines # Null)
             => /\ task[t].klines < MinKlines
                /\ task[t].ndays = 0 /\ task[t].idx = 0
                /\ db'.status = "failed"
                /\ db'.error_message = "set"
                /\ Ledger(db') = Ledger(db)
                /\ trades' = trades
                /\ ndecisions' = ndecisions]_vars

C18_Witness ==
    \E t \in TaskIds :
        /\ task[t].pc = "done"
        /\ task[t].klines \in {0, MinKlines - 1}
        /\ db.status = "failed"
        /\ db.error_message = "set"
        /\ trades = << >>
        /\ db.current_balance = Dec(InitialBalance)

\* C19: the metrics are computed only when the loop has gone through the
\* whole window: an execution whose loop broke on paused or stopped ends
\* with total_profit_loss and summary in the store as they were when the
\* loop broke
C19_MetricsOnlyOnCompletion ==
    [][\A t \in TaskIds :
          (/\ task[t].pc = "finish"
           /\ task[t].idx < task[t].ndays
           /\ task'[t].pc = "done")
          => /\ db'.total_profit_loss = task[t].sim.total_profit_loss
             /\ db'.summary = task[t].sim.summary]_vars

\* C20: once a pause or a stop has been committed while an execution is
\* inside the day loop, the execution finishes at most the day it is on and
\* its next status check breaks the loop: it opens no further day
C20_BoundedCancellation ==
    [][\A t \in TaskIds :
          (task[t].cancel /\ task[t].pc = "loop" /\ task'[t] # task[t])
          => task'[t].pc \in {"finish", "except"}]_vars

\* C21: in every committed state whose status is terminal, the row says how
\* it got there: completed carries the generated summary, stopped carries
\* the summary of the stop command, failed carries an error message
C21_TerminalExplained ==
    /\ db.status = "completed" => db.summary = "generated"
    /\ db.status = "stopped" => db.summary = "stopped by user"
    /\ db.status = "failed" => db.error_message = "set"

\* log a is kept, entry for entry and in order, at the head of log b
LogKept(a, b) == Len(a) <= Len(b) /\ SubSeq(b, 1, Len(a)) = a

\* C22: the execution log only grows and loses nothing: a commit leaves every
\* committed entry where it was, and when an execution ends the committed
\* log holds every entry the loop of the execution has appended
C22_LogAppendOnly ==
    [][/\ LogKept(db.execution_logs, db'.execution_logs)
       /\ \A t \in TaskIds :
             (task[t].pc = "finish" /\ task'[t].pc = "done")
             => LogKept(task[t].sim.execution_logs, db'.execution_logs)]_vars

\* C23: the average cost changes only when a buy is executed, and then it
\* becomes (shares_before * average_cost_before + quantity * price) /
\* shares_after, which is the price when nothing was held; an executed
\* sell and a decision that is skipped leave it as it was
C23_AverageCost ==
    [][IF Len(trades') > Len(trades) /\ trades'[Len(trades')].action = "buy"
       THEN LET tr == trades'[Len(trades')]
            IN  db'.average_cost =
                   IF tr.shares_before = 0 THEN tr.price
                   ELSE (tr.shares_before * db.average_cost
                           + tr.quantity * tr.price) \div tr.shares_after
       ELSE db'.average_cost = db.average_cost]_vars

\* a buy was blended into a holding bought at another price, and a sell
\* followed that left the blended cost in place
C23_Witness ==
    \E i, j \in DOMAIN trades :
        /\ i < j
        /\ trades[i].action = "buy" /\ trades[i].shares_before > 0
        /\ trades[j].action = "sell"
        /\ db.current_shares > 0
        /\ db.average_cost \notin {Dec(p) : p \in ExecPrices}

\* C24: every executed sell records realized_pnl = (quantity * price -
\* commission) - quantity * average_cost and adds one to winning_trades when
\* that is positive, one to losing_trades when it is negative and to
\* neither when it is zero; an executed buy records no realized_pnl and
\* changes neither counter; so does a decision that is skipped
C24_RealizedPnl ==
    [][IF Len(trades') > Len(trades)
       THEN LET tr  == trades'[Len(trades')]
                pnl == (tr.quantity * tr.price - tr.commission)
                          - tr.quantity * db.average_cost
            IN  IF tr.action = "sell"
                THEN /\ ~tr.pnl_null
                     /\ tr.realized_pnl = pnl
                     /\ db'.winning_trades =
                           db.winning_trades + (IF pnl > 0 THEN 1 ELSE 0)
                     /\ db'.losing_trades =
                           db.losing_trades + (IF pnl < 0 THEN 1 ELSE 0)
                ELSE /\ tr.pnl_null
                     /\ db'.winning_trades = db.winning_trades
                     /\ db'.losing_trades = db.losing_trades
       ELSE /\ db'.winning_trades = db.winning_trades
            /\ db'.losing_trades = db.losing_trades]_vars

\* a sell at a profit and a sell at a loss are on record, after a buy
C24_Witness ==
    /\ db.winning_trades = 1
    /\ db.losing_trades = 1
    /\ \E i \in DOMAIN trades : trades[i].action = "buy" /\ trades[i].pnl_null
    /\ \E i, j \in DOMAIN trades :
          /\ trades[i].action = "sell" /\ trades[i].realized_pnl > 0
          /\ trades[j].action = "sell" /\ trades[j].realized_pnl < 0

\* C25: whenever no shares are held the average cost is undefined (None):
\* at creation, and after a sell that brings the holding to zero
C25_NoSharesNoCost ==
    db.current_shares = 0 => db.average_cost = Null

\* C26: for every sequence of Trades the executor produces, the largest
\* drawdown the metrics compute is a fraction between 0 and 1
C26_DrawdownBound ==
    trades # << >> =>
        LET dd == MaxDrawdown(trades)
        IN  dd.den > 0 /\ 0 <= dd.num /\ dd.num <= dd.den

\* three Trades whose portfolio value fell below its peak twice, the second
\* fall being the deeper one
C26_Witness ==
    /\ Len(trades) = 3
    /\ PortfolioValue(trades[2]) < PortfolioValue(trades[1])
    /\ PortfolioValue(trades[3]) < PortfolioValue(trades[2])
    /\ MaxDrawdown(trades) =
          Drawdown(PortfolioValue(trades[1]), PortfolioValue(trades[3]))
    /\ MaxDrawdown(trades).num > 0

\* C27: when an execution ends after its loop went through the whole window
\* and the simulation has at least one Trade, the total_profit_loss it
\* commits is the sum of the realized_pnl of all the Trades (None counting
\* as 0) plus, when shares remain, current_shares * (price of the last
\* Trade - average_cost)
C27_TotalProfitLoss ==
    [][\A t \in TaskIds :
          (/\ task[t].pc = "finish" /\ task'[t].pc = "done"
           /\ task[t].idx = task[t].ndays
           /\ trades' # << >>)
          => db'.total_profit_loss =
                RealizedSum(trades')
                  + (IF db'.current_shares > 0
                     THEN db'.current_shares
                            * (LastPrice(trades') - db'.average_cost)
                     ELSE 0)]_vars

\* a completed run with a buy, a sell at a loss and shares left over whose
\* unrealized part is not zero
C27_Witness ==
    /\ db.status = "completed"
    /\ \E t \in TaskIds : task[t].pc = "done" /\ task[t].idx = task[t].ndays
                            /\ task[t].ndays > 0
    /\ Len(trades) = 2
    /\ trades[2].action = "sell" /\ trades[2].realized_pnl < 0
    /\ db.current_shares > 0
    /\ db.total_profit_loss # RealizedSum(trades)

\* the Trades of the example: 100 shares bought on the first day (close
\* 100), nothing on the second, 50 shares sold on the third (close 95)
ExampleDay1 ==
    /\ Len(trades) >= 1
    /\ trades[1].trade_date = 0 /\ trades[1].action = "buy"
    /\ trades[1].quantity = 100
ExampleDay3 ==
    /\ ExampleDay1
    /\ Len(trades) >= 2
    /\ trades[2].trade_date = 2 /\ trades[2].action = "sell"
    /\ trades[2].quantity = 50

\* C28: in the example, after the fourth day (hold) the total_profit_loss of
\* the completed run is the realized loss of the sell plus the unrealized
\* profit of the 50 shares left, valued at the close of the fourth day, 110
C28_ExampleTotal ==
    (ExampleDay3 /\ Len(trades) = 2 /\ db.status = "completed")
    => db.total_profit_loss =
          trades[2].realized_pnl + 50 * (Dec(Close(3)) - db.average_cost)

\* C29 as the spec words it: cash 39,900 after the first day, cash 44,647.75
\* and a realized_pnl of -255 after the third
C29_ExampleAsWorded ==
    /\ ExampleDay1 =>
          trades[1].shares_after = 100 /\ trades[1].cash_after = Dec(39900)
    /\ ExampleDay3 =>
          /\ trades[2].shares_after = 50
          /\ trades[2].cash_after = Dec(44647) + 750
          /\ trades[2].realized_pnl = -Dec(255)
          /\ (Len(trades) = 2 => db.losing_trades = 1)

\* C29: in the example, with the commission of 0.1%, the first day leaves
\* 100 shares and cash 50000 - 100 * 100 * 1.001 = 39,990; the third day
\* leaves 50 shares and cash 39,990 + 50 * 95 * 0.999 = 44,735.25, the
\* realized_pnl of its sell is 4,745.25 - 5,000 = -254.75 and
\* losing_trades is 1
C29_Example ==
    /\ ExampleDay1 =>
          trades[1].shares_after = 100 /\ trades[1].cash_after = Dec(39990)
    /\ ExampleDay3 =>
          /\ trades[2].shares_after = 50
          /\ trades[2].cash_after = Dec(44735) + 250
          /\ trades[2].realized_pnl = -(Dec(254) + 750)
          /\ (Len(trades) = 2 => db.losing_trades = 1)

\* the example has run through its third day
C29_Witness ==
    /\ ExampleDay3
    /\ Len(trades) = 2
    /\ ndecisions = 3
    /\ db.current_shares = 50
    /\ db.losing_trades = 1

\* C30: after a run has completed, sharpe_ratio is 0 whenever the Trades
\* give fewer than two returns and whenever the returns are all equal; it
\* is never left undefined
C30_SharpeZero ==
    (db.status = "completed"
       /\ (Len(Returns(trades)) < 2
             \/ \A i \in DOMAIN Returns(trades) :
                   Returns(trades)[i] = Returns(trades)[1]))
    => db.sharpe_ratio = 0

\* the dates of a list of klines
Dates(klines) == {klines[i] : i \in DOMAIN klines}

\* the n most recent of a set of dates
MostRecent(dates, n) ==
    {d \in dates : Cardinality({e \in dates : e > d}) < n}

\* C31: the days iterated are the fetched klines dated inside the period
\* when there are at least 10 of them, and otherwise the most recent
\* min(60, number fetched) fetched klines; in that case, and only then, one
\* fallback entry is in the log before the entry of the first day
C31_WindowSelection ==
    task[1].pc = "days" =>
        LET klines == task[1].klines
            inside == {d \in Dates(klines) : InPeriod(d)}
            logs   == task[1].execution_logs
        IN  /\ Dates(task[1].days) =
                   IF Cardinality(inside) >= MinWindow THEN inside
                   ELSE MostRecent(Dates(klines), Min(RecentDays, Len(klines)))
            /\ Cardinality({i \in DOMAIN logs : logs[i] = "fallback"}) =
                   IF Cardinality(inside) >= MinWindow THEN 0 ELSE 1
            /\ \A i, j \in DOMAIN logs :
                   logs[i] = "fallback" /\ logs[j] = "day" => i < j

\* C32: the price history handed over with day i of the selected sequence
\* is day i preceded by the klines just before it in the sequence, at most
\* 20 of them; it holds no kline that comes after day i
C32_LookbackWindow ==
    (task[1].pc = "days" /\ task[1].idx > 0) =>
        LET days == task[1].days
            i    == task[1].idx
            h    == task[1].lookback
        IN  /\ Len(h) = Min(i, LookbackDays + 1)
            /\ \A j \in DOMAIN h : h[j] = days[i - Len(h) + j]
            /\ \A p \in (i + 1) .. Len(days) :
                   \A j \in DOMAIN h : h[j] # days[p]

\* the price history of a day beyond the 21st of a run, with days after it
C32_Witness ==
    /\ task[1].pc = "days"
    /\ task[1].idx > LookbackDays + 1
    /\ task[1].idx < Len(task[1].days)
    /\ Len(task[1].lookback) = LookbackDays + 1

\* a decision that _execute_trade does not execute: no quantity asked, a buy
\* beyond the cash whose clamped quantity is no share, a sell with no share
\* held
Skipped(sim, d, price) ==
    \/ d.quantity <= 0
    \/ /\ d.action = "buy"
       /\ d.quantity * Dec(price) + Commission(d.quantity * Dec(price))
             > sim.current_balance
       /\ ClampedBuyQuantity(sim.current_balance, price) <= 0
    \/ d.action = "sell" /\ sim.current_shares = 0

\* C33: a skipped decision appends no Trade and leaves current_balance,
\* current_shares, average_cost, total_trades, winning_trades and
\* losing_trades as they were, and the next decision is taken
C33_SkipLeavesLedger ==
    [][\A d \in ExecDecisions, price \in ExecPrices :
          (ExecStep(d, price) /\ Skipped(db, d, price)) =>
              /\ trades' = trades
              /\ Ledger(db') = Ledger(db)
              /\ ndecisions' = ndecisions + 1]_vars

\* two clamped buys have left less cash than one share costs, and the
\* decision after them was skipped
C33_Witness ==
    /\ ndecisions = Len(trades) + 1
    /\ Len(trades) = 2
    /\ \A i \in DOMAIN trades : trades[i].action = "buy" /\ Clamped(trades[i])
    /\ \A price \in ExecPrices :
          ClampedBuyQuantity(db.current_balance, price) <= 0

\* C34: while an execution is inside the simulation loop, the committed
\* status, the one the lifecycle commands read, is not pending
C34_NotPendingInLoop ==
    \A t \in TaskIds : InLoop(t) => db.status # "pending"

\* C35: the committed Trades, in the order they were appended, form a
\* chain: the first starts from no shares and the initial balance, each
\* other one starts from what the one before it left, and the committed
\* current_shares and current_balance are what the last one left
C35_LedgerContinuity ==
    /\ \A i \in DOMAIN trades :
          /\ trades[i].shares_before =
                IF i = 1 THEN 0 ELSE trades[i - 1].shares_after
          /\ trades[i].cash_before =
                IF i = 1 THEN Dec(InitialBalance) ELSE trades[i - 1].cash_after
    /\ trades # << >> =>
          /\ db.current_shares = trades[Len(trades)].shares_after
          /\ db.current_balance = trades[Len(trades)].cash_after

\* C36: a task that finds, when it is picked up, a status other than
\* pending returns at once: it changes neither the committed row, nor the
\* Trades, nor anything flushed and takes no lock; and a task that has
\* returned does nothing more
C36_NotPendingNotRun ==
    [][\A t \in TaskIds :
          /\ (task[t].pc = "idle" /\ task'[t].pc # "idle"
                 /\ db.status # "pending")
             => /\ task'[t].pc = "done"
                /\ UNCHANGED <<db, trades, lock, pend, pendTrades>>
          /\ task[t].pc = "done" => task'[t] = task[t]]_vars

\* a task dispatched by a resume was picked up after a stop had been
\* committed and has returned without a Trade
C36_Witness ==
    \E t \in TaskIds :
        /\ task[t].pc = "done" /\ task[t].origin = "resume"
        /\ task[t].klines = Null /\ task[t].sim = NewSimulation
        /\ db.status = "stopped"
        /\ \A i \in DOMAIN trades : trades[i].by # t

\* the Trades execution t has added, committed or flushed, in the order it
\* added them
TradesBy(t) ==
    SelectSeq(trades \o (IF lock = t THEN pendTrades ELSE << >>),
              LAMBDA tr : tr.by = t)

\* C37: the Trades of one execution are dated to days it has processed,
\* each later one to a later day of its sequence than the one before it
\* (at most one Trade a day, in the order of the days), and each is priced
\* at the close of its day
C37_OneTradePerDay ==
    \A t \in TaskIds :
        LET ts == TradesBy(t)
        IN  /\ \A i \in DOMAIN ts :
                  /\ ts[i].trade_date >= task[t].d0
                  /\ ts[i].trade_date < task[t].d0 + task[t].idx
                  /\ ts[i].price = Dec(Close(ts[i].trade_date))
            /\ \A i, j \in DOMAIN ts :
                  i < j => ts[i].trade_date < ts[j].trade_date

\* an execution has traded on two days of different closes
C37_Witness ==
    \E t \in TaskIds :
        /\ Len(TradesBy(t)) = 2
        /\ TradesBy(t)[1].price # TradesBy(t)[2].price

\* C38: every answer of the oracle that is parsed adds the tokens and the
\* cost it reports to total_tokens_used and total_llm_cost of the row the
\* execution persists (stated where that row is written: the flush of a
\* trade, and the last day of the run), and every Trade carries the tokens
\* and the cost reported by the answer that produced it
C38_UsageAccounting ==
    [][\A t \in TaskIds :
          /\ (DayInvalid(t) /\ task'[t].pc = "finish")
             => /\ task'[t].sim.total_tokens_used =
                      View(t).total_tokens_used + Response.total_tokens
                /\ task'[t].sim.total_llm_cost =
                      View(t).total_llm_cost + Response.cost_usd
          /\ ((\E d \in Decisions : DayTrade(t, d)) /\ pendTrades' # pendTrades)
             => LET tr == pendTrades'[Len(pendTrades')]
                IN  /\ pend'.total_tokens_used =
                          task[t].sim.total_tokens_used + Response.total_tokens
                    /\ pend'.total_llm_cost =
                          task[t].sim.total_llm_cost + Response.cost_usd
                    /\ tr.tokens_used = Response.total_tokens
                    /\ tr.llm_cost = Response.cost_usd]_vars
====
